---- MODULE Spec2Model ----
(***************************************************************************)
(* generate_apple_jwt.py: a script that prints the header and payload of  *)
(* an Apple Sign In client-secret JWT together with instructions.         *)
(*                                                                         *)
(* Text is modelled as the sequence of its lines: standard output is a    *)
(* sequence of strings, and a multi-line string (the result of            *)
(* json.dumps with indent=2) is the sequence of its lines.                *)
(*                                                                         *)
(* Time is modelled in ticks of 1/TicksPerSec second counted from         *)
(* BaseTime (a Unix time in seconds).  time.time() and datetime.now()     *)
(* both read the same system clock; datetime.now() converts the reading   *)
(* to naive local wall-clock time with the rules of the local time zone,  *)
(* and datetime.timestamp() converts naive local time back.               *)
(***************************************************************************)
EXTENDS Integers, Sequences, FiniteSets, TLC

\* ------------------------------------------------------------------ bounds
TicksPerSec == 2      \* clock resolution: ticks per second
MaxAdvance == 1       \* ticks the clock may advance between the two reads
BaseTime == 1700000000 \* Unix time (s) of tick 0

\* An invocation starts at the first or the last tick of the second
\* BaseTime or at the first tick of the next second.
StartTicks == {0, TicksPerSec - 1, TicksPerSec}

\* ------------------------------------------------------- module constants
TEAM_ID == "5TBWU99J4Y"
KEY_ID == "YACV7X3SX4"
SERVICE_ID == "com.neal.envivenew.signin"
KEY_FILE == "/Users/nealahlstrom/Downloads/AuthKey_YACV7X3SX4.p8"

\* ------------------------------------------------------------- environment
\* __name__ of the module: "__main__" when run as a script, the module
\* name when imported.
Names == {"__main__", "generate_apple_jwt"}
\* sys.argv[1:] of the process
Argvs == {<< >>, <<"--days", "90">>}
\* __file__: the path the script was launched from
Files == {"generate_apple_jwt.py", "/home/dev/Envive/generate_apple_jwt.py"}
\* local time zones (see UtcOffset)
Zones == {"UTC", "SpringMid", "Winter", "ShortDST"}

SecondsPerDay == 24 * 3600
\* timedelta(days=d) in seconds
Timedelta(d) == d * SecondsPerDay

\* The UTC offset (seconds east of UTC) the local time zone z has at the
\* UTC instant u (seconds), as time.localtime(u).tm_gmtoff reports it.
\*   UTC        no offset
\*   SpringMid  clocks go forward 1 h 90 days after BaseTime
\*   Winter     clocks go back 1 h 30 days after BaseTime and forward
\*              again 150 days after BaseTime
\*   ShortDST   clocks go forward 30 days after BaseTime and back half an
\*              hour before BaseTime + 180 d
UtcOffset(z, u) ==
  CASE z = "UTC" -> 0
    [] z = "SpringMid" ->
         IF u < BaseTime + Timedelta(90) THEN 3600 ELSE 7200
    [] z = "Winter" ->
         IF u < BaseTime + Timedelta(30) THEN 7200
         ELSE IF u < BaseTime + Timedelta(150) THEN 3600 ELSE 7200
    [] z = "ShortDST" ->
         IF u < BaseTime + Timedelta(30) THEN 3600
         ELSE IF u < BaseTime + Timedelta(180) - 1800 THEN 7200 ELSE 3600

\* Naive local wall-clock seconds of the UTC instant u in zone z.
Local(z, u) == u + UtcOffset(z, u)

Max(a, b) == IF a >= b THEN a ELSE b

\* datetime._mktime of a naive datetime with fold = 0: solve t = Local(u)
\* for u.  An ambiguous wall time yields the earlier instant, a wall time
\* in a gap yields the later of the two candidates.
Mktime(z, t) ==
  LET a  == Local(z, t) - t
      u1 == t - a
      t1 == Local(z, u1)
      b  == IF t1 = t THEN UtcOffset(z, u1 - SecondsPerDay) ELSE t1 - u1
      u2 == t - b
      t2 == Local(z, u2)
  IN  IF t1 = t /\ a = b THEN u1
      ELSE IF t2 = t THEN u2
      ELSE IF t1 = t THEN u1
      ELSE Max(u1, u2)

\* Unix seconds and sub-second ticks of a clock value c (ticks from BaseTime)
Sec(c) == BaseTime + (c \div TicksPerSec)
Sub(c) == c % TicksPerSec

\* Mutant of TimeTime: round(time.time()) instead of int(time.time()).
TimeTime_rounds(c) ==
  Sec(c) + (IF 2 * Sub(c) >= TicksPerSec THEN 1 ELSE 0)

\* int(time.time()) when the clock shows c: the float is truncated.
TimeTime(c) == Sec(c)

\* Mutant of ExpiryTimestamp: the timedelta is subtracted.
ExpiryTimestamp_subtracts(z, c, days) ==
  LET wall   == Local(z, Sec(c))
      later  == wall - Timedelta(days)
  IN  Mktime(z, later) + (Sub(c) \div TicksPerSec)

\* int((datetime.now() + timedelta(days=days)).timestamp()) when the clock
\* shows c in zone z.  datetime.now() is the naive local time (seconds and
\* sub-second part); the timedelta is added to the wall-clock value;
\* timestamp() is _mktime of the whole seconds plus the sub-second part
\* (less than one second); int() truncates.
ExpiryTimestamp(z, c, days) ==
  LET wall   == Local(z, Sec(c))
      later  == wall + Timedelta(days)
  IN  Mktime(z, later) + (Sub(c) \div TicksPerSec)

\* ------------------------------------------------------------------- text
RECURSIVE Repeat(_, _)
\* s * n for a string s
Repeat(s, n) == IF n = 0 THEN "" ELSE s \o Repeat(s, n - 1)

\* A JSON value is <<"s", string>> or <<"i", integer>>.
JsonValue(v) == IF v[1] = "s" THEN "\"" \o v[2] \o "\"" ELSE ToString(v[2])

\* json.dumps(obj, indent=2) of a non-empty dict, given as the sequence of
\* its <<key, value>> items in insertion order: the lines of the text.
JsonDumps(obj) ==
  <<"{">> \o
  [i \in 1..Len(obj) |->
     "  \"" \o obj[i][1] \o "\": " \o JsonValue(obj[i][2])
       \o (IF i < Len(obj) THEN "," ELSE "")] \o
  <<"}">>

\* ------------------------------------------------------------ control flow
PcLoad == 7     \* first statement of the module
PcGuard == 71   \* if __name__ == "__main__":
PcCall == 72    \*     main()
PcEnd == 73     \* past the last line: the interpreter exits

\* The statements of main(), by line, in order.
MainLines ==
  <<20, 21, 22, 23, 29, 30, 31, 32, 33, 34, 35, 36, 37, 41, 42, 43, 44, 45,
    46, 53, 54, 55, 56, 57, 58, 59, 60, 61, 62, 63, 64, 65, 66, 67, 68, 69>>

IndexOf(l) == CHOOSE i \in 1..Len(MainLines) : MainLines[i] = l

\* The statement after line l of main(); returning from main() leads to the
\* end of the file.
NextLine(l) ==
  IF IndexOf(l) < Len(MainLines) THEN MainLines[IndexOf(l) + 1] ELSE PcEnd

\* The print statements with a constant argument, and what they print.
StaticLines ==
  {20, 21, 22, 23, 29, 30, 31, 32, 33, 34, 35, 36, 41, 42, 43, 53, 54, 55,
   56, 58, 59, 60, 61, 62, 63, 64, 65, 66, 67, 69}

Text(l) ==
  CASE l \in {20, 22, 62} -> Repeat("=", 60)
    [] l = 21 -> "Apple Sign In JWT Generator"
    [] l \in {23, 30, 36, 41, 43, 53, 58, 61, 63, 69} -> ""
    [] l = 29 -> "To generate your JWT token, you have two options:"
    [] l = 31 -> "OPTION 1: Use jwt.io (Manual - 2 minutes)"
    [] l \in {32, 65} -> Repeat("-", 60)
    [] l = 33 -> "1. Go to: https://jwt.io"
    [] l = 34 -> "2. Select algorithm: ES256"
    [] l = 35 -> "3. Edit HEADER (left side, top box) - paste this:"
    [] l = 42 -> "4. Edit PAYLOAD (left side, middle box) - paste this:"
    [] l = 54 -> "5. On the RIGHT side, look for 'Private Key' box"
    [] l = 55 -> "   (You may need to scroll down)"
    [] l = 56 -> "6. Paste your private key from:"
    [] l = 59 -> "7. Copy the long token from the top (starts with 'eyJ...')"
    [] l = 60 -> "8. Paste it into Supabase 'Secret Key (for OAuth)' field"
    [] l = 64 -> "OPTION 2: Install Python libraries and run this script"
    [] l = 66 -> "Run these commands:"
    [] l = 67 -> "  python3 -m pip install --user PyJWT cryptography"

\* Mutant of Header: "kid" is given the team identifier.
Header_teamKid ==
  << <<"alg", <<"s", "ES256">> >>, <<"kid", <<"s", TEAM_ID>> >> >>

\* Mutant of Payload: "iss" and "sub" are exchanged.
Payload_swapped(iat, expiry) ==
  << <<"iss", <<"s", SERVICE_ID>> >>,
     <<"iat", <<"i", iat>> >>,
     <<"exp", <<"i", expiry>> >>,
     <<"aud", <<"s", "https://appleid.apple.com">> >>,
     <<"sub", <<"s", TEAM_ID>> >> >>

\* The header and payload dicts of lines 37-40 and 46-52.
Header == << <<"alg", <<"s", "ES256">> >>, <<"kid", <<"s", KEY_ID>> >> >>

Payload(iat, expiry) ==
  << <<"iss", <<"s", TEAM_ID>> >>,
     <<"iat", <<"i", iat>> >>,
     <<"exp", <<"i", expiry>> >>,
     <<"aud", <<"s", "https://appleid.apple.com">> >>,
     <<"sub", <<"s", SERVICE_ID>> >> >>

\* ------------------------------------------------------------------ state
VARIABLES
  name,      \* __name__
  argv,      \* sys.argv[1:]
  file,      \* __file__
  zone,      \* the local time zone
  clock,     \* the system clock, in ticks from BaseTime
  fs,        \* the filesystem: the set of paths opened or written so far
  net,       \* the network connections opened so far
  environ,   \* the process environment
  pc,        \* the line about to be executed
  status,    \* "running" or "exited"
  exitCode,  \* the exit code once exited, -1 before
  out,       \* standard output, line by line
  now,       \* local variable now of main()
  exp,       \* local variable exp of main()
  calls,     \* number of calls of main() so far
  reads,     \* the clock readings taken so far, in order
  prev       \* the previous invocation of the program, if any

vars == <<name, argv, file, zone, clock, fs, net, environ, pc, status,
          exitCode, out, now, exp, calls, reads, prev>>

world == <<fs, net, environ>>
inputs == <<name, argv, file, zone>>

Environ == [TZ |-> "local", HOME |-> "/home/dev"]
NoRun == [ran |-> FALSE]

\* The state of a freshly started interpreter.
Fresh ==
  /\ name \in Names
  /\ argv \in Argvs
  /\ file \in Files
  /\ zone \in Zones
  /\ clock \in StartTicks
  /\ pc = PcLoad
  /\ status = "running"
  /\ exitCode = -1
  /\ out = << >>
  /\ now = 0
  /\ exp = 0
  /\ calls = 0
  /\ reads = << >>

Init ==
  /\ Fresh
  /\ fs = {}
  /\ net = {}
  /\ environ = Environ
  /\ prev = NoRun

Running(l) == status = "running" /\ pc = l

\* print(text): append the lines of text to standard output.
PrintLines(lines) == out' = out \o lines

\* Lines 7-19: the imports, the four constants and the definition of main.
LoadModule ==
  /\ Running(PcLoad)
  /\ pc' = PcGuard
  /\ UNCHANGED <<inputs, clock, world, status, exitCode, out, now, exp,
                 calls, reads, prev>>

\* Mutant of Guard: main() is called whatever __name__ is.
Guard_always ==
  /\ Running(PcGuard)
  /\ pc' = PcCall
  /\ UNCHANGED <<inputs, clock, world, status, exitCode, out, now, exp,
                 calls, reads, prev>>

\* Line 71: if __name__ == "__main__":
Guard ==
  /\ Running(PcGuard)
  /\ pc' = IF name = "__main__" THEN PcCall ELSE PcEnd
  /\ UNCHANGED <<inputs, clock, world, status, exitCode, out, now, exp,
                 calls, reads, prev>>

\* Line 72: main()
CallMain ==
  /\ Running(PcCall)
  /\ calls' = calls + 1
  /\ pc' = MainLines[1]
  /\ UNCHANGED <<inputs, clock, world, status, exitCode, out, now, exp,
                 reads, prev>>

\* A print statement with a constant argument.
PrintStatic ==
  /\ status = "running"
  /\ pc \in StaticLines
  /\ PrintLines(<<Text(pc)>>)
  /\ pc' = NextLine(pc)
  /\ UNCHANGED <<inputs, clock, world, status, exitCode, now, exp, calls,
                 reads, prev>>

\* Lines 37-40: print(json.dumps({"alg": "ES256", "kid": KEY_ID}, indent=2))
PrintHeader ==
  /\ Running(37)
  /\ PrintLines(JsonDumps(Header))
  /\ pc' = NextLine(37)
  /\ UNCHANGED <<inputs, clock, world, status, exitCode, now, exp, calls,
                 reads, prev>>

\* Line 44: now = int(time.time())
ReadNow ==
  /\ Running(44)
  /\ now' = TimeTime(clock)
  /\ reads' = Append(reads, clock)
  /\ pc' = NextLine(44)
  /\ UNCHANGED <<inputs, clock, world, status, exitCode, out, exp, calls,
                 prev>>

\* Mutant of ReadExp: the number of days is taken from the command line.
ReadExp_argvDays ==
  /\ Running(45)
  /\ exp' = ExpiryTimestamp(zone, clock, IF argv = << >> THEN 180 ELSE 90)
  /\ reads' = Append(reads, clock)
  /\ pc' = NextLine(45)
  /\ UNCHANGED <<inputs, clock, world, status, exitCode, out, now, calls,
                 prev>>

\* Line 45: exp = int((datetime.now() + timedelta(days=180)).timestamp())
ReadExp ==
  /\ Running(45)
  /\ exp' = ExpiryTimestamp(zone, clock, 180)
  /\ reads' = Append(reads, clock)
  /\ pc' = NextLine(45)
  /\ UNCHANGED <<inputs, clock, world, status, exitCode, out, now, calls,
                 prev>>

\* Lines 46-52: print(json.dumps({...}, indent=2))
PrintPayload ==
  /\ Running(46)
  /\ PrintLines(JsonDumps(Payload(now, exp)))
  /\ pc' = NextLine(46)
  /\ UNCHANGED <<inputs, clock, world, status, exitCode, now, exp, calls,
                 reads, prev>>

\* Mutant of PrintKeyFile: the key file is opened and read before its path
\* is printed.
PrintKeyFile_reads ==
  /\ Running(57)
  /\ fs' = fs \cup {KEY_FILE}
  /\ PrintLines(<<"   " \o KEY_FILE>>)
  /\ pc' = NextLine(57)
  /\ UNCHANGED <<inputs, clock, net, environ, status, exitCode, now, exp,
                 calls, reads, prev>>

\* Mutant of PrintKeyFile: opening the key file raises and the interpreter
\* exits with code 1.
PrintKeyFile_raises ==
  /\ Running(57)
  /\ status' = "exited"
  /\ exitCode' = 1
  /\ UNCHANGED <<inputs, clock, world, pc, out, now, exp, calls, reads,
                 prev>>

\* Line 57: print(f"   {KEY_FILE}")
PrintKeyFile ==
  /\ Running(57)
  /\ PrintLines(<<"   " \o KEY_FILE>>)
  /\ pc' = NextLine(57)
  /\ UNCHANGED <<inputs, clock, world, status, exitCode, now, exp, calls,
                 reads, prev>>

\* Mutant of PrintFile: print("  python3", *sys.argv), the script path
\* followed by the first argument, if any.
PrintFile_argv ==
  /\ Running(68)
  /\ PrintLines(<<"  python3" \o " " \o file \o
                    (IF argv = << >> THEN "" ELSE " " \o argv[1])>>)
  /\ pc' = NextLine(68)
  /\ UNCHANGED <<inputs, clock, world, status, exitCode, now, exp, calls,
                 reads, prev>>

\* Line 68: print("  python3", __file__)
PrintFile ==
  /\ Running(68)
  /\ PrintLines(<<"  python3" \o " " \o file>>)
  /\ pc' = NextLine(68)
  /\ UNCHANGED <<inputs, clock, world, status, exitCode, now, exp, calls,
                 reads, prev>>

\* The end of the file is reached: the interpreter exits with code 0.
Exit ==
  /\ Running(PcEnd)
  /\ status' = "exited"
  /\ exitCode' = 0
  /\ UNCHANGED <<inputs, clock, world, pc, out, now, exp, calls, reads,
                 prev>>

\* One step of the program.
Step ==
  \/ LoadModule
  \/ Guard
  \/ CallMain
  \/ PrintStatic
  \/ PrintHeader
  \/ ReadNow
  \/ ReadExp
  \/ PrintPayload
  \/ PrintKeyFile
  \/ PrintFile
  \/ Exit

\* The clock advances by one tick between the two reads.  (The clock is read
\* at lines 44 and 45 only; its advance before line 44 is the choice of the
\* start tick and its advance after line 45 is not observed.)
Tick ==
  /\ Running(45)
  /\ clock - reads[1] < MaxAdvance
  /\ clock' = clock + 1
  /\ UNCHANGED <<inputs, world, pc, status, exitCode, out, now, exp, calls,
                 reads, prev>>

\* The clock is set back by one second between the two reads (a clock
\* adjustment).
StepBack ==
  /\ Running(45)
  /\ clock = reads[1]
  /\ clock' = clock - TicksPerSec
  /\ UNCHANGED <<inputs, world, pc, status, exitCode, out, now, exp, calls,
                 reads, prev>>

\* What an exited invocation leaves to compare the next one with.
Summary ==
  [ran |-> TRUE, name |-> name, argv |-> argv, file |-> file, zone |-> zone,
   reads |-> reads, out |-> out, exitCode |-> exitCode]

\* The program is invoked again after the first invocation has exited.
Reinvoke ==
  /\ status = "exited"
  /\ ~prev.ran
  /\ prev' = Summary
  /\ name' \in Names
  /\ argv' \in Argvs
  /\ file' \in Files
  /\ zone' \in Zones
  /\ clock' \in StartTicks
  /\ pc' = PcLoad
  /\ status' = "running"
  /\ exitCode' = -1
  /\ out' = << >>
  /\ now' = 0
  /\ exp' = 0
  /\ calls' = 0
  /\ reads' = << >>
  /\ UNCHANGED world

\* A single invocation.
Next == Step \/ Tick \/ StepBack

Spec == Init /\ [][Next]_vars

\* A single invocation in which the interpreter keeps running.
FairSpec == Spec /\ WF_vars(Step)

\* Two invocations, one after the other.
NextPair == Next \/ Reinvoke

PairSpec == Init /\ [][NextPair]_vars

\* ----------------------------------------------------------------- claims
\* main() has been called and has executed the statement at line l.
Executed(l) ==
  /\ calls > 0
  /\ \/ pc = PcEnd
     \/ pc \in StaticLines \cup {37, 44, 45, 46, 57, 68}
        /\ IndexOf(pc) > IndexOf(l)

\* The lines of standard output written by the statements at lines 37 and 46
\* (12 lines precede the header, 3 separate it from the payload).
HeaderText == SubSeq(out, 13, 16)
PayloadText == SubSeq(out, 20, 26)

IatLine(t) == "  \"iat\": " \o ToString(t) \o ","
ExpLine(t) == "  \"exp\": " \o ToString(t) \o ","

\* C1: an invocation at Unix time T prints "iat": T and "exp": T + 15552000,
\* whatever the clock does and whatever the local time zone is.
C1_ExactOffset ==
  Executed(46) =>
    /\ PayloadText[3] = IatLine(Sec(reads[1]))
    /\ PayloadText[4] = ExpLine(Sec(reads[1]) + 15552000)

\* C2: the printed payload has iat < exp: its iat and exp lines render the
\* values of now and exp, and now < exp.
C2_IatBeforeExp ==
  Executed(46) =>
    /\ PayloadText[3] = IatLine(now)
    /\ PayloadText[4] = ExpLine(exp)
    /\ now < exp

C2_Witness == Executed(46) /\ Len(out) >= 26 /\ now < exp

\* Both invocations ran main() to the end.
BothMainExited ==
  /\ prev.ran
  /\ status = "exited"
  /\ prev.name = "__main__"
  /\ name = "__main__"

\* C3 as stated: two runs of main() that observe the same current time (the
\* first clock reading) print identical text.
C3_SameTimeSameOutput ==
  (BothMainExited /\ prev.reads[1] = reads[1]) => prev.out = out

\* C3 as amended: two runs of main() that take the same two clock readings
\* in the same local time zone from the same script path print identical
\* text.
C3_Deterministic ==
  (/\ BothMainExited
   /\ prev.reads = reads
   /\ prev.zone = zone
   /\ prev.file = file) => prev.out = out

C3_Witness ==
  /\ BothMainExited
  /\ prev.reads = reads
  /\ prev.zone = zone
  /\ prev.file = file
  /\ prev.argv /= argv
  /\ Len(out) = 43

\* C4: the header text is the JSON object with "alg" "ES256" and "kid" the
\* key identifier, in every invocation.
C4_Header ==
  Executed(37) =>
    HeaderText = <<"{",
                   "  \"alg\": \"ES256\",",
                   "  \"kid\": \"YACV7X3SX4\"",
                   "}">>

C4_Witness == Executed(37) /\ Len(out) >= 16 /\ clock > 0 /\ zone /= "UTC"

\* C5: the payload text has the fixed "iss", "aud" and "sub" members in every
\* invocation; the "iat" and "exp" members are the only lines that vary.
C5_Payload ==
  Executed(46) =>
    /\ Len(PayloadText) = 7
    /\ PayloadText[1] = "{"
    /\ PayloadText[2] = "  \"iss\": \"5TBWU99J4Y\","
    /\ PayloadText[3] = IatLine(now)
    /\ PayloadText[4] = ExpLine(exp)
    /\ PayloadText[5] = "  \"aud\": \"https://appleid.apple.com\","
    /\ PayloadText[6] = "  \"sub\": \"com.neal.envivenew.signin\""
    /\ PayloadText[7] = "}"

C5_Witness == Executed(46) /\ Len(out) >= 26 /\ now /= BaseTime

\* C6: an invocation with command-line arguments prints what an invocation
\* without arguments prints, all else (the way it is loaded, the script
\* path, the time zone and the clock readings) being equal.
C6_ArgsIgnored ==
  (/\ prev.ran
   /\ status = "exited"
   /\ prev.argv /= argv
   /\ prev.name = name
   /\ prev.file = file
   /\ prev.zone = zone
   /\ prev.reads = reads) => (prev.out = out /\ prev.exitCode = exitCode)

C6_Witness ==
  /\ prev.ran
  /\ status = "exited"
  /\ prev.name = "__main__"
  /\ name = "__main__"
  /\ prev.argv = << >>
  /\ argv /= << >>
  /\ prev.file = file
  /\ prev.zone = zone
  /\ prev.reads = reads
  /\ prev.out = out

\* C7: every invocation exits with code 0, and when run as the main program
\* it has called main() once and printed all 43 lines by then.
C7_Terminates ==
  <>(/\ status = "exited"
     /\ exitCode = 0
     /\ (name = "__main__" => calls = 1 /\ Len(out) = 43 /\ pc = PcEnd))

C7_Witness ==
  status = "exited" /\ exitCode = 0 /\ name = "__main__" /\ Len(out) = 43

\* C8: every step leaves the filesystem, the network and the environment
\* unchanged and only appends to standard output.
C8_OnlyStdout ==
  [][/\ fs' = fs
     /\ net' = net
     /\ environ' = environ
     /\ Len(out') >= Len(out)
     /\ SubSeq(out', 1, Len(out)) = out]_vars

C8_Witness ==
  /\ Executed(57)
  /\ out[31] = "   /Users/nealahlstrom/Downloads/AuthKey_YACV7X3SX4.p8"
  /\ KEY_FILE \notin fs

\* C9: loaded as a library the module prints nothing, reads no clock and
\* does not call main(); executed as the main program it calls main()
\* exactly once.
C9_MainGuard ==
  /\ name /= "__main__" => (out = << >> /\ reads = << >> /\ calls = 0)
  /\ name = "__main__" => (calls <= 1 /\ (status = "exited" => calls = 1))

C9_Witness ==
  status = "exited" /\ name /= "__main__" /\ out = << >> /\ calls = 0

\* The UTC offset is the same at the second clock reading and 180 days
\* after it.
SameOffsetLater ==
  UtcOffset(zone, Sec(reads[2])) =
    UtcOffset(zone, Sec(reads[2]) + 15552000)

\* The local wall-clock time t (seconds) occurs twice in zone z.
Ambiguous(z, t) ==
  Cardinality({u \in {t, t - 3600, t - 7200} : Local(z, u) = t}) > 1

\* The local wall-clock time 180 days after the second clock reading.
WallLater == Local(zone, Sec(reads[2])) + 15552000

\* What C10 concludes about the two readings.
C10_Conclusion ==
  /\ Len(reads) = 2
  /\ now = Sec(reads[1])
  /\ exp - now >= 15552000
  /\ (exp - now = 15552000) <=> (Sec(reads[2]) = Sec(reads[1]))

====
